---- MODULE Spec2Model ----
(***************************************************************************)
(* fm96: FM stereo multiplex generator (src/fm96.c).                       *)
(*                                                                         *)
(* The model follows main() statement group by statement group.  Sample    *)
(* values are integers; the composite is kept in units of 1/Unit so that   *)
(* the weights 0.45 and 0.09 and the halving of (L+R) and (L-R) are exact. *)
(* Floating-point rounding is not modelled.  The oscillator and biquad     *)
(* routines come from <dsp.h>, which is not part of the repository; they   *)
(* are modelled from their description.                                    *)
(***************************************************************************)
EXTENDS Integers, Sequences, FiniteSets, TLC

\* ------------------------------------------------------------------ bounds

\* samples per block (the program uses 768, src/fm96.c:17)
BUFFER_SIZE == 2

\* number of loop iterations the model lets begin
MaxBlocks == 2

\* amplitudes of the left and of the right channel of a captured block
AudioSamples == {0, 1}

\* amplitudes of a block of the external multiplex device
MpxSamples == {0, 1}

\* values of -S / --sample_rate after atoi
SampleRates == {0, 30000, 192000}

\* values of -s / --stereo after atoi
StereoArgs == {0, 1}

Idx == 0 .. (BUFFER_SIZE - 1)

\* --------------------------------------------------- composite fixed point

\* sine values are held in hundredths
SinScale == 100

\* one unit of composite amplitude: 2 (halving) * 100 (weights) * SinScale
Unit == 20000

\* --------------------------------------------------------------- variables

VARIABLES
    pc,                  \* position in main()
    stereo,              \* int stereo (configuration flag)
    sample_rate,         \* int sample_rate
    mpx_name,            \* TRUE iff strlen(audio_mpx_device) != 0
    running,             \* volatile sig_atomic_t running
    handlers,            \* TRUE once signal(SIGINT/SIGTERM, stop) is done
    dev,                 \* device -> "none" | "open" | "freed"
    nfree,               \* device -> number of pa_simple_free calls on it
    osc,                 \* Oscillator pilot: [phase, inc]
    slot,                \* the float variables the dsp objects are bound to
    filt,                \* BiquadFilter objects: bindings and delay lines
    audio_stereo_input,  \* float audio_stereo_input[BUFFER_SIZE*2]
    left, right,         \* float left[], right[]
    mpx_in,              \* float mpx_in[BUFFER_SIZE]
    output,              \* float output[BUFFER_SIZE], in 1/Unit
    i,                   \* loop index of the sample loop
    pilot_s,             \* float pilot_s
    stereo_carrier,      \* float stereo_carrier
    hist                 \* observation record (not program state)

vars == <<pc, stereo, sample_rate, mpx_name, running, handlers, dev, nfree,
          osc, slot, filt, audio_stereo_input, left, right, mpx_in, output,
          i, pilot_s, stereo_carrier, hist>>

Devices == {"output", "input", "mpx"}

Slots == {"pilot_sample", "preemp_input_l", "preemp_input_r",
          "lpf_preemp_l", "lpf_preemp_r", "lpf_out_l", "lpf_out_r"}

Filters == {"preemp_l", "preemp_r", "lpf_l", "lpf_r"}

Steps == {"eval1", "eval2", "advance", "filter", "mux"}

\* ------------------------------------------------ dsp library (from <dsp.h>)

\* phase resolution of the modelled oscillator: steps per cycle
PhaseSteps == 12

\* sin(k * 30 degrees) in units of 1/SinScale
SinTab == <<0, 50, 87, 100, 87, 50, 0, -50, -87, -100, -87, -50>>

\* 2*pi*frequency/sample_rate, in phase steps
PhaseInc(frequency, rate) == (frequency * PhaseSteps) \div rate

\* init_sine_oscillator: phase 0, increment fixed from frequency and rate
InitOscillator(frequency, rate) ==
    [phase |-> 0, inc |-> PhaseInc(frequency, rate)]

\* compute_sine_oscillator_sin_multiplier: sin(multiplier * phase); the
\* phase is left alone
OscSin(o, multiplier) == SinTab[((multiplier * o.phase) % PhaseSteps) + 1]

\* advance_sine_oscillator: phase moves on by one increment, wrapped
OscAdvance(o) == [o EXCEPT !.phase = (o.phase + o.inc) % PhaseSteps]

\* coefficients produced by init_preemphasis (integer stand-ins)
PreemphasisCoef == [b0 |-> 3, b1 |-> -2, b2 |-> 0, a1 |-> 0, a2 |-> 0]

\* coefficients produced by init_lpf (integer stand-ins)
LpfCoef == [b0 |-> 1, b1 |-> 2, b2 |-> 1, a1 |-> 1, a2 |-> 1]

ZeroDelay == [x1 |-> 0, x2 |-> 0, y1 |-> 0, y2 |-> 0]

\* one biquad step on a delay line d with input x: <<output, new delay line>>
BiquadStep(c, d, x) ==
    LET y == c.b0 * x + c.b1 * d.x1 + c.b2 * d.x2 - c.a1 * d.y1 - c.a2 * d.y2
    IN  <<y, [x1 |-> x, x2 |-> d.x1, y1 |-> y, y2 |-> d.y1]>>

\* apply_biquad(&f): reads the float bound as input, writes the float bound
\* as output, shifts the delay line.  st = [filt, slot].
ApplyBiquad(st, f) ==
    LET b == st.filt[f]
        r == BiquadStep(b.coef, b.delay, st.slot[b.in])
    IN  [filt |-> [st.filt EXCEPT ![f].delay = r[2]],
         slot |-> [st.slot EXCEPT ![b.out] = r[1]]]

\* pa_simple_new rejects a sample spec whose rate is not positive
PaRateValid(rate) == rate > 0

\* -------------------------------------------------------- main(): constants

PilotFreq == 19000

LpfCutoff == 15000

\* input and output floats each filter is bound to at construction
Bindings ==
    [lpf_l    |-> [in |-> "lpf_preemp_l",   out |-> "lpf_out_l"],
     lpf_r    |-> [in |-> "lpf_preemp_r",   out |-> "lpf_out_r"],
     preemp_l |-> [in |-> "preemp_input_l", out |-> "lpf_preemp_l"],
     preemp_r |-> [in |-> "preemp_input_r", out |-> "lpf_preemp_r"]]

CoefOf(f) == IF f \in {"lpf_l", "lpf_r"} THEN LpfCoef ELSE PreemphasisCoef

InitFilters ==
    [f \in Filters |->
        [in |-> Bindings[f].in, out |-> Bindings[f].out,
         coef |-> CoefOf(f), delay |-> ZeroDelay]]

\* ------------------------------------------------------------------- Init

HistInit ==
    [begun |-> 0, io |-> 0, steps |-> 0, samples |-> 0, adv |-> 0,
     failed |-> FALSE, atFail |-> <<>>, stopBegun |-> -1, stopMid |-> FALSE,
     inL |-> <<>>, inR |-> <<>>,
     tagIn |-> 0, tagMpx |-> 0, tagLR |-> 0,
     tagOut |-> [k \in Idx |-> [iter |-> 0, src |-> 0, mpx |-> 0]],
     wrote |-> <<>>, mux |-> <<>>, opened |-> {}]

Init ==
    /\ pc = "args"
    /\ stereo = 1
    /\ sample_rate = 192000
    /\ mpx_name = FALSE
    /\ running = 1
    /\ handlers = FALSE
    /\ dev = [d \in Devices |-> "none"]
    /\ nfree = [d \in Devices |-> 0]
    /\ osc = [phase |-> 0, inc |-> 0]
    /\ slot = [s \in Slots |-> 0]
    /\ filt = [f \in Filters |->
                 [in |-> "pilot_sample", out |-> "pilot_sample",
                  coef |-> [b0 |-> 0, b1 |-> 0, b2 |-> 0, a1 |-> 0, a2 |-> 0],
                  delay |-> ZeroDelay]]
    /\ audio_stereo_input = [k \in 0 .. (2 * BUFFER_SIZE - 1) |-> 0]
    /\ left = [k \in Idx |-> 0]
    /\ right = [k \in Idx |-> 0]
    /\ mpx_in = [k \in Idx |-> 0]
    /\ output = [k \in Idx |-> 0]
    /\ i = 0
    /\ pilot_s = 0
    /\ stereo_carrier = 0
    /\ hist = HistInit

\* ------------------------------------------------------ setup of the devices

config == <<stereo, sample_rate, mpx_name>>
devices == <<dev, nfree>>
dsp == <<osc, slot, filt>>
buffers == <<audio_stereo_input, left, right, mpx_in, output>>
locals == <<i, pilot_s, stereo_carrier>>

\* getopt loop: -s, -S, -m set the configuration
ParseArgs ==
    /\ pc = "args"
    /\ \E s \in StereoArgs, r \in SampleRates, m \in BOOLEAN :
          /\ stereo' = s
          /\ sample_rate' = r
          /\ mpx_name' = m
    /\ pc' = "open_out"
    /\ UNCHANGED <<running, handlers, devices, dsp, buffers, locals, hist>>

\* -h prints the usage and returns 0
ParseHelp ==
    /\ pc = "args"
    /\ pc' = "done"
    /\ UNCHANGED <<config, running, handlers, devices, dsp, buffers, locals, hist>>

Free(dv, nf, ds) ==
    <<[d \in Devices |-> IF d \in ds THEN "freed" ELSE dv[d]],
      [d \in Devices |-> IF d \in ds THEN nf[d] + 1 ELSE nf[d]]>>

\* pa_simple_new of device d succeeded
Opened(d, next) ==
    /\ PaRateValid(sample_rate)
    /\ dev' = [dev EXCEPT ![d] = "open"]
    /\ hist' = [hist EXCEPT !.opened = @ \cup {d}]
    /\ pc' = next
    /\ UNCHANGED nfree

\* pa_simple_new failed: the devices in ds are freed and main returns 1
OpenFailed(ds) ==
    /\ dev' = Free(dev, nfree, ds)[1]
    /\ nfree' = Free(dev, nfree, ds)[2]
    /\ pc' = "done"
    /\ UNCHANGED hist

OpenOutput ==
    /\ pc = "open_out"
    /\ \/ Opened("output", "open_in")
       \/ OpenFailed({})
    /\ UNCHANGED <<config, running, handlers, dsp, buffers, locals>>

OpenInput ==
    /\ pc = "open_in"
    /\ \/ Opened("input", "open_mpx")
       \/ OpenFailed({"output"})
    /\ UNCHANGED <<config, running, handlers, dsp, buffers, locals>>

OpenMpx ==
    /\ pc = "open_mpx"
    /\ IF mpx_name
         THEN \/ Opened("mpx", "init_dsp")
              \/ OpenFailed({"input", "output"})
         ELSE /\ pc' = "init_dsp"
              /\ UNCHANGED <<devices, hist>>
    /\ UNCHANGED <<config, running, handlers, dsp, buffers, locals>>

\* construction of the oscillator and the four filters: main tests no
\* outcome of it and goes on to the loop
InitDsp ==
    /\ pc = "init_dsp"
    /\ osc' = InitOscillator(PilotFreq, sample_rate)
    /\ filt' = InitFilters
    /\ pc' = "signals"
    /\ UNCHANGED <<config, running, handlers, devices, slot, buffers, locals, hist>>

InstallSignals ==
    /\ pc = "signals"
    /\ handlers' = TRUE
    /\ pc' = "looptest"
    /\ UNCHANGED <<config, running, devices, dsp, buffers, locals, hist>>

\* ------------------------------------------------------- the streaming loop

\* (mutant) the loop test does not read the flag
LoopCondIgnoresStop(run) == TRUE

\* while(running)
LoopCond(run) == run # 0

\* (mutant) the sample loop ends one index early
SampleLoopCondShort(k) == k < BUFFER_SIZE - 1

\* for (...; i < BUFFER_SIZE; ...)
SampleLoopCond(k) == k < BUFFER_SIZE

\* (mutant) the oscillator is advanced between the two evaluations
SampleOrderAdvanceEarly == <<"eval1", "advance", "eval2", "filter", "mux">>

\* the statements of the body of the sample loop, in program order
SampleOrder == <<"eval1", "eval2", "advance", "filter", "mux">>

\* the statement after statement p of the body; "for_inc" after the last
StepAfter(p) ==
    LET k == CHOOSE n \in 1 .. Len(SampleOrder) : SampleOrder[n] = p
    IN  IF k < Len(SampleOrder) THEN SampleOrder[k + 1] ELSE "for_inc"

\* (mutant) no break after the failed read of the input block
AfterReadErrorFallsThrough == "read_mpx"

\* where control goes after a failed pa_simple_read / pa_simple_write: break
AfterReadError == "cleanup"
AfterMpxReadError == "cleanup"
AfterWriteError == "cleanup"

\* an i/o call failed: running = 0
IoError(next) ==
    /\ running' = 0
    /\ pc' = next
    /\ hist' = [hist EXCEPT !.io = @ + 1, !.failed = TRUE,
                            !.atFail = <<[io |-> hist.io + 1,
                                          steps |-> hist.steps,
                                          wrote |-> Len(hist.wrote)]>>]

LoopTest ==
    /\ pc = "looptest"
    /\ IF LoopCond(running)
         THEN /\ hist.begun < MaxBlocks
              /\ pc' = "read_in"
              /\ hist' = [hist EXCEPT !.begun = @ + 1]
         ELSE /\ pc' = "cleanup"
              /\ UNCHANGED hist
    /\ UNCHANGED <<config, running, handlers, devices, dsp, buffers, locals>>

\* a block the capture device delivers, interleaved: frame k holds
\* <<l * (k + 1), r * (k + 1)>>, so the samples of a block differ by index
AudioBlock(l, r) ==
    [k \in 0 .. (2 * BUFFER_SIZE - 1) |->
        (IF k % 2 = 0 THEN l ELSE r) * ((k \div 2) + 1)]

\* a block the external multiplex device delivers: sample k holds x * (k + 1)
MpxBlock(x) == [k \in Idx |-> x * (k + 1)]

ReadInput ==
    /\ pc = "read_in"
    /\ \/ /\ \E l \in AudioSamples, r \in AudioSamples :
                audio_stereo_input' = AudioBlock(l, r)
          /\ pc' = "read_mpx"
          /\ hist' = [hist EXCEPT !.io = @ + 1, !.tagIn = hist.begun]
          /\ UNCHANGED running
       \/ /\ IoError(AfterReadError)
          /\ UNCHANGED audio_stereo_input
    /\ UNCHANGED <<config, handlers, devices, dsp, left, right, mpx_in, output, locals>>

ReadMpx ==
    /\ pc = "read_mpx"
    /\ IF mpx_name
         THEN \/ /\ \E x \in MpxSamples : mpx_in' = MpxBlock(x)
                 /\ pc' = "uninterleave"
                 /\ hist' = [hist EXCEPT !.io = @ + 1, !.tagMpx = hist.begun]
                 /\ UNCHANGED running
              \/ /\ IoError(AfterMpxReadError)
                 /\ UNCHANGED mpx_in
         ELSE /\ pc' = "uninterleave"
              /\ UNCHANGED <<mpx_in, running, hist>>
    /\ UNCHANGED <<config, handlers, devices, dsp, audio_stereo_input, left, right,
                   output, locals>>

\* uninterleave(input, left, right, num_samples): num_samples/2 frames
UninterleaveLeft(input, num_samples) ==
    [k \in 0 .. ((num_samples \div 2) - 1) |-> input[k * 2]]

UninterleaveRight(input, num_samples) ==
    [k \in 0 .. ((num_samples \div 2) - 1) |-> input[k * 2 + 1]]

\* uninterleave, then the for loop begins: i = 0 and its first test
Uninterleave ==
    /\ pc = "uninterleave"
    /\ left' = UninterleaveLeft(audio_stereo_input, BUFFER_SIZE * 2)
    /\ right' = UninterleaveRight(audio_stereo_input, BUFFER_SIZE * 2)
    /\ i' = 0
    /\ pc' = IF SampleLoopCond(0) THEN SampleOrder[1] ELSE "write"
    /\ hist' = [hist EXCEPT !.tagLR = hist.tagIn]
    /\ UNCHANGED <<config, running, handlers, devices, dsp, audio_stereo_input,
                   mpx_in, output, pilot_s, stereo_carrier>>

\* compute_sine_oscillator_sin(&pilot); pilot_s = pilot_sample
Eval1 ==
    /\ pc = "eval1"
    /\ slot' = [slot EXCEPT !["pilot_sample"] = OscSin(osc, 1)]
    /\ pilot_s' = slot'["pilot_sample"]
    /\ pc' = StepAfter("eval1")
    /\ hist' = [hist EXCEPT !.steps = @ + 1]
    /\ UNCHANGED <<config, running, handlers, devices, osc, filt, buffers, i,
                   stereo_carrier>>

\* compute_sine_oscillator_sin_multiplier(&pilot, 2); stereo_carrier = pilot_sample
Eval2 ==
    /\ pc = "eval2"
    /\ slot' = [slot EXCEPT !["pilot_sample"] = OscSin(osc, 2)]
    /\ stereo_carrier' = slot'["pilot_sample"]
    /\ pc' = StepAfter("eval2")
    /\ hist' = [hist EXCEPT !.steps = @ + 1]
    /\ UNCHANGED <<config, running, handlers, devices, osc, filt, buffers, i,
                   pilot_s>>

\* advance_sine_oscillator(&pilot)
Advance ==
    /\ pc = "advance"
    /\ osc' = OscAdvance(osc)
    /\ pc' = StepAfter("advance")
    /\ hist' = [hist EXCEPT !.steps = @ + 1, !.adv = @ + 1]
    /\ UNCHANGED <<config, running, handlers, devices, slot, filt, buffers, locals>>

\* (mutant) the low-pass filters are applied before the preemphasis filters
ApplyOrderLpfFirst == <<"lpf_l", "lpf_r", "preemp_l", "preemp_r">>

\* the order of the four apply_biquad calls
ApplyOrder == <<"preemp_l", "preemp_r", "lpf_l", "lpf_r">>

RECURSIVE ApplyAll(_, _)
ApplyAll(st, fs) ==
    IF fs = <<>> THEN st ELSE ApplyAll(ApplyBiquad(st, Head(fs)), Tail(fs))

\* preemp_input_l = left[i]; preemp_input_r = right[i]; four apply_biquad
Filter ==
    /\ pc = "filter"
    /\ LET fed == [slot EXCEPT !["preemp_input_l"] = left[i],
                               !["preemp_input_r"] = right[i]]
           st  == ApplyAll([filt |-> filt, slot |-> fed], ApplyOrder)
       IN  /\ filt' = st.filt
           /\ slot' = st.slot
    /\ pc' = StepAfter("filter")
    /\ hist' = [hist EXCEPT !.steps = @ + 1,
                            !.inL = Append(@, left[i]),
                            !.inR = Append(@, right[i])]
    /\ UNCHANGED <<config, running, handlers, devices, osc, buffers, locals>>

\* float mono = (lpf_out_l + lpf_out_r) / 2.0f, in 1/Unit
Mono(l, r) == (l + r) * (Unit \div 2)

\* float stereo = (lpf_out_l - lpf_out_r) / 2.0f, doubled: this float is
\* declared in the loop body under the name of the configuration flag
StereoDiff2(l, r) == l - r

\* if(stereo): the name denotes the float declared on the line before, so
\* the test is on the difference signal; the flag is not read
StereoBranch(flag, l, r) == StereoDiff2(l, r) # 0

\* mono*0.45f + pilot_s*0.09f + (stereo*stereo_carrier)*0.45f, in 1/Unit
Encoded(l, r, p, s) ==
    (l + r) * ((45 * Unit) \div 200)
      + p * ((9 * Unit) \div (100 * SinScale))
      + (StereoDiff2(l, r) * s) * ((45 * Unit) \div (200 * SinScale))

\* (mutant) the external sample is added to mono before the branch
MultiplexMpxIntoMono(flag, l, r, p, s, x) ==
    IF StereoBranch(flag, l, r)
      THEN Encoded(l, r, p, s) + x * ((45 * Unit) \div 100)
      ELSE Mono(l, r) + x * Unit

\* output[i] of one sample: the branch, then output[i] += mpx_in[i]
Multiplex(flag, l, r, p, s, x) ==
    (IF StereoBranch(flag, l, r) THEN Encoded(l, r, p, s) ELSE Mono(l, r))
      + x * Unit

Mux ==
    /\ pc = "mux"
    /\ LET l == slot["lpf_out_l"]
           r == slot["lpf_out_r"]
           v == Multiplex(stereo, l, r, pilot_s, stereo_carrier, mpx_in[i])
       IN  /\ output' = [output EXCEPT ![i] = v]
           /\ hist' = [hist EXCEPT
                 !.steps = @ + 1,
                 !.samples = @ + 1,
                 !.tagOut[i] = [iter |-> hist.begun, src |-> hist.tagLR,
                                mpx |-> hist.tagMpx],
                 !.mux = <<[l |-> l, r |-> r, p |-> pilot_s,
                            s |-> stereo_carrier, x |-> mpx_in[i],
                            phase |-> osc.phase, out |-> v]>>]
    /\ pc' = StepAfter("mux")
    /\ UNCHANGED <<config, running, handlers, devices, dsp, audio_stereo_input,
                   left, right, mpx_in, locals>>

\* i++ and the test of the for loop
ForInc ==
    /\ pc = "for_inc"
    /\ i' = i + 1
    /\ pc' = IF SampleLoopCond(i + 1) THEN SampleOrder[1] ELSE "write"
    /\ UNCHANGED <<config, running, handlers, devices, dsp, buffers, pilot_s,
                   stereo_carrier, hist>>

Write ==
    /\ pc = "write"
    /\ \/ /\ pc' = "looptest"
          /\ hist' = [hist EXCEPT
                 !.io = @ + 1,
                 !.wrote = Append(@, [iter |-> hist.begun, tags |-> hist.tagOut,
                                      data |-> output])]
          /\ UNCHANGED running
       \/ IoError(AfterWriteError)
    /\ UNCHANGED <<config, handlers, devices, dsp, buffers, locals>>

\* the devices released at the exit label
CleanupSet == {"input", "output"}

Cleanup ==
    /\ pc = "cleanup"
    /\ dev' = Free(dev, nfree, CleanupSet)[1]
    /\ nfree' = Free(dev, nfree, CleanupSet)[2]
    /\ pc' = "done"
    /\ UNCHANGED <<config, running, handlers, dsp, buffers, locals, hist>>

\* the handler of SIGINT and SIGTERM
Stop ==
    /\ handlers
    /\ pc # "done"
    /\ running' = 0
    /\ hist' = IF hist.stopBegun = -1
                 THEN [hist EXCEPT !.stopBegun = hist.begun,
                                   !.stopMid = (pc \in Steps \cup {"for_inc"})]
                 ELSE hist
    /\ UNCHANGED <<pc, config, handlers, devices, dsp, buffers, locals>>

Next ==
    \/ ParseArgs \/ ParseHelp
    \/ OpenOutput \/ OpenInput \/ OpenMpx
    \/ InitDsp \/ InstallSignals
    \/ LoopTest \/ ReadInput \/ ReadMpx \/ Uninterleave
    \/ Eval1 \/ Eval2 \/ Advance \/ Filter \/ Mux \/ ForInc
    \/ Write \/ Cleanup
    \/ Stop

Spec == Init /\ [][Next]_vars

\* ------------------------------------------------------------------ claims

\* the sample the multiplexer computed last
LastMux == hist.mux[1]

\* a sample rate for which the cutoff and the pilot are below Nyquist
ConfigValid(rate) ==
    /\ rate > 0
    /\ 2 * LpfCutoff < rate
    /\ 2 * PilotFreq < rate

\* C1: with the stereo flag disabled (-s 0) and no external multiplex
\* contribution, every composite sample equals mono = (L + R) / 2 (stated
\* here for a valid sample rate).
C1_CompositeIsMonoWhenStereoOff ==
    (stereo = 0 /\ ConfigValid(sample_rate) /\ hist.mux # <<>> /\ LastMux.x = 0)
        => LastMux.out = (LastMux.l + LastMux.r) * (Unit \div 2)

\* C2: with the stereo flag enabled and filtered L = R, every composite
\* sample equals L*0.45 + pilot*0.09 plus the external multiplex sample
\* (stated here for a valid sample rate).
C2_PilotAndScaledMonoWhenEqual ==
    (stereo # 0 /\ ConfigValid(sample_rate) /\ hist.mux # <<>>
       /\ LastMux.l = LastMux.r)
        => LastMux.out = LastMux.l * ((45 * Unit) \div 100)
                           + LastMux.p * ((9 * Unit) \div (100 * SinScale))
                           + LastMux.x * Unit

\* C3: the composite computed with external sample X minus the composite
\* computed with external sample 0, all else equal, is X; so neither the
\* weights nor the choice of the branch depend on X.
C3_MpxSuperposition ==
    hist.mux # <<>>
        => LastMux.out
             - Multiplex(stereo, LastMux.l, LastMux.r, LastMux.p, LastMux.s, 0)
           = LastMux.x * Unit

C3_Witness ==
    /\ hist.mux # <<>>
    /\ LastMux.x # 0
    /\ LastMux.l # LastMux.r
    /\ LastMux.p # 0

\* the phase after n advances from phase 0
PhaseAfter(n) == (n * osc.inc) % PhaseSteps

\* C4: the oscillator is advanced exactly once per sample, after both
\* harmonics were read: the pilot and the subcarrier of sample n are the
\* sine of 1 and 2 times the phase after n-1 advances.
C4_HarmonicsBeforeSingleAdvance ==
    /\ hist.adv = hist.samples + (IF pc \in {"filter", "mux"} THEN 1 ELSE 0)
    /\ hist.mux # <<>>
         => /\ LastMux.p = SinTab[((1 * PhaseAfter(hist.samples - 1)) % PhaseSteps) + 1]
            /\ LastMux.s = SinTab[((2 * PhaseAfter(hist.samples - 1)) % PhaseSteps) + 1]

C4_Witness ==
    /\ hist.samples = BUFFER_SIZE + 1
    /\ hist.adv = hist.samples
    /\ LastMux.p # 0
    /\ LastMux.s # 0

\* C5: a stop request is observed at the loop test only: no iteration begins
\* after it, and unless an i/o call failed every iteration that began, the
\* one the request arrived in included, processed BUFFER_SIZE samples and
\* wrote its block.
C5_StopObservedAtBlockBoundary ==
    /\ hist.stopBegun # -1 => hist.begun = hist.stopBegun
    /\ (pc \in {"looptest", "cleanup", "done"} /\ ~hist.failed)
         => /\ Len(hist.wrote) = hist.begun
            /\ hist.samples = hist.begun * BUFFER_SIZE

C5_Witness ==
    /\ hist.stopMid
    /\ pc = "done"
    /\ ~hist.failed
    /\ Len(hist.wrote) = hist.begun
    /\ hist.begun = hist.stopBegun

\* C6: after a failed read or write the loop is over: control is at the
\* exit, running is 0, the block of the iteration is not written and no
\* further read, sample step or write happens.
C6_IoFailureIsFatal ==
    hist.failed
        => /\ pc \in {"cleanup", "done"}
           /\ running = 0
           /\ hist.io = hist.atFail[1].io
           /\ hist.steps = hist.atFail[1].steps
           /\ Len(hist.wrote) = hist.atFail[1].wrote
           /\ Len(hist.wrote) = hist.begun - 1

C6_Witness ==
    /\ hist.failed
    /\ pc = "done"
    /\ hist.begun = 2
    /\ hist.samples = 2 * BUFFER_SIZE

\* C7: every block written holds, at each of its BUFFER_SIZE indices, a
\* sample computed in the iteration that wrote it, from the input block
\* (and the external multiplex block, when configured) read in it.
C7_WrittenBlocksAreWhole ==
    \A n \in 1 .. Len(hist.wrote) :
        /\ hist.wrote[n].iter = n
        /\ DOMAIN hist.wrote[n].data = Idx
        /\ \A k \in Idx :
              /\ hist.wrote[n].tags[k].iter = n
              /\ hist.wrote[n].tags[k].src = n
              /\ mpx_name => hist.wrote[n].tags[k].mpx = n

C7_Witness ==
    /\ Len(hist.wrote) = 2
    /\ hist.wrote[1].data # hist.wrote[2].data

\* C8: with an invalid configuration the loop never runs: no iteration
\* begins and no block is read or written.
C8_InvalidConfigNeverRuns ==
    ~ConfigValid(sample_rate) => (hist.begun = 0 /\ hist.io = 0)

\* the outputs of a biquad with coefficients c, started on delay line d,
\* for the inputs xs
RECURSIVE FilterSeq(_, _, _)
FilterSeq(c, d, xs) ==
    IF xs = <<>> THEN <<>>
    ELSE LET r == BiquadStep(c, d, Head(xs))
         IN  <<r[1]>> \o FilterSeq(c, r[2], Tail(xs))

PreemphasisOf(xs) == FilterSeq(PreemphasisCoef, ZeroDelay, xs)

ChainOf(xs) == FilterSeq(LpfCoef, ZeroDelay, PreemphasisOf(xs))

Last(xs) == xs[Len(xs)]

\* C9: per channel, the low-pass input of sample i is the preemphasis output
\* of sample i of that channel, and the filtered value is the low-pass of the
\* preemphasis of that channel's input history alone.
C9_ChannelChains ==
    Len(hist.inL) > 0
        => /\ slot["lpf_preemp_l"] = Last(PreemphasisOf(hist.inL))
           /\ slot["lpf_preemp_r"] = Last(PreemphasisOf(hist.inR))
           /\ slot["lpf_out_l"] = Last(ChainOf(hist.inL))
           /\ slot["lpf_out_r"] = Last(ChainOf(hist.inR))

C9_Witness ==
    /\ Len(hist.inL) = BUFFER_SIZE + 1
    /\ hist.inL # hist.inR
    /\ slot["lpf_out_l"] # slot["lpf_out_r"]
    /\ slot["lpf_out_r"] # 0

\* C10: when main has returned, every device that was opened has been
\* released exactly once (stated here for a valid sample rate).
C10_OpenedDevicesReleasedOnce ==
    (pc = "done" /\ ConfigValid(sample_rate))
        => \A d \in hist.opened : nfree[d] = 1

====
